---- MODULE Spec2Model ----
(***************************************************************************)
(* Music_Deconstructor: the multi-pass separation pipeline                 *)
(* (music_separator.py), the job registry ACTIVE_PROCESSES with its        *)
(* cancel endpoint, the progress relay generate_progress, the stem        *)
(* listing results_for_file and the fusion endpoint fuse_tracks (app.py).  *)
(*                                                                         *)
(* The external engine (demucs) is the environment: a process that writes  *)
(* diagnostic lines to its stderr pipe, writes stem files, and exits.      *)
(***************************************************************************)
EXTENDS Integers, Sequences, FiniteSets, TLC

\* ------------------------------------------------------------------ bounds
\* lines the engine processes of one job may write to stderr, in total
MaxLines == 2

\* ------------------------------------------------------- program constants
\* returncode of a process ended by Popen.kill() (music_separator.py:150)
KILLED == -9

Jobs == {"j1", "j2"}
Models == {"htdemucs", "mdx"}
best_model == "htdemucs_ft"
ComponentChoices == {4, 5, 6, 8}
BaseStems == <<"vocals", "drums", "bass", "other">>
stems_to_separate == <<"vocals", "drums", "other">>
ExitCodes == {0, 1}

NoKey == [base |-> "", sub |-> "-"]
NoProc == [pass |-> "none", key |-> NoKey, st |-> "none", rc |-> 0,
           pipe |-> <<>>, emitted |-> 0, wrote |-> FALSE]

VARIABLES
    cfg,              \* per job: the arguments of separate_audio_ultra
    pc,               \* per job: position of the generate_progress generator
    proc,             \* per job: the engine process of the current _run_demucs call
    ACTIVE_PROCESSES, \* the job registry: key -> process handle (owning job)
    fs,               \* the file system under the output root: path -> content
    dirs,             \* directories that exist under the output root
    events,           \* per job: events delivered to the caller so far
    ops,              \* per job: engine spawns, assemblies, enhancements so far
    cancelled,        \* per job: passes whose process was killed by cancel
    cancel_reply,     \* per job: the reply to the latest /cancel of its session
    listing           \* per job: the latest /results-for-file request and reply

\* the replies of the routes beside /process
rvars == <<cancel_reply, listing>>

pvars == <<cfg, pc, proc, ACTIVE_PROCESSES, fs, dirs, events, ops, cancelled, rvars>>

VARIABLES
    request,          \* per fusion request: the JSON payload of /fuse
    uploads,          \* the files in the upload folder
    bpm,              \* per song: the tempo get_bpm detects (0: undetectable)
    fpc,              \* per fusion request: position in fuse_tracks
    role_index,       \* per fusion request: position of the loop over fusion_map
    stems_to_fuse,    \* per fusion request: the list handed to fuse_stems
    temp_fusion,      \* the scratch directory: path -> content
    fused_tracks,     \* requests whose mixed file was written
    response,         \* per fusion request: the HTTP response
    stretch_log       \* per fusion request: time_stretch_audio calls and outcomes

fvars == <<request, uploads, bpm, fpc, role_index, stems_to_fuse, temp_fusion,
           fused_tracks, response, stretch_log>>

\* ------------------------------------------------------------ paths, names
Range(s) == {s[i] : i \in 1..Len(s)}

\* Path(input_file).stem
base_name(name) ==
    CASE name = "a.mp3" -> "a"
      [] name = "b.mp3" -> "b"
      [] OTHER -> name

Wav(stem) ==
    CASE stem = "vocals" -> "vocals.wav"
      [] stem = "drums" -> "drums.wav"
      [] stem = "bass" -> "bass.wav"
      [] stem = "other" -> "other.wav"
      [] stem = "piano" -> "piano.wav"
      [] stem = "guitar" -> "guitar.wav"
      [] stem = "lead_vocals" -> "lead_vocals.wav"
      [] stem = "harmony" -> "harmony.wav"
      [] stem = "kick_snare" -> "kick_snare.wav"
      [] stem = "cymbals" -> "cymbals.wav"
      [] stem = "no_vocals" -> "no_vocals.wav"
      [] stem = "no_drums" -> "no_drums.wav"
      [] stem = "no_other" -> "no_other.wav"

Dir(kind, a, b) == [kind |-> kind, a |-> a, b |-> b]
File(d, name) == [dir |-> d, name |-> name]

\* os.path.join(output_dir, model, base_name)
TrackDir(model, base) == Dir("track", model, base)
\* os.path.join(output_dir, "advanced", model, "other")
AdvancedDir6(model) == Dir("advanced", model, "other")
\* os.path.join(output_dir, "advanced_<stem>", "htdemucs_ft", <stem>)
AdvancedDir8(stem) == Dir("advanced_stem", best_model, stem)
FinalDir6(base) == Dir("6_components", "", base)
FinalDir8(base) == Dir("8_components", "", base)

\* mutant: the caller's model is used for every stem count
used_model_Requested(c) == c.model

\* the model a job's engine runs with
used_model(c) == IF c.components = 8 THEN best_model ELSE c.model

job_id(c) == [base |-> c.input, sub |-> ""]
\* mutant: a sub-invocation is registered under the base job key
sub_job_id_Base(c, stem) == [base |-> c.input, sub |-> ""]

sub_job_id(c, stem) == [base |-> c.input, sub |-> stem]

Exists(f, p) == p \in DOMAIN f
Remove(f, p) == [q \in DOMAIN f \ {p} |-> f[q]]
WriteFile(f, p, content) == (p :> content) @@ f
Copy(f, src, dst) == WriteFile(f, dst, f[src])

\* ------------------------------------------------------------ the registry
\* mutant: the spawned process is not registered
Register_Skip(reg, key, handle) == reg

Register(reg, key, handle) ==
    [k \in DOMAIN reg \cup {key} |-> IF k = key THEN handle ELSE reg[k]]

\* mutant: the finally block empties the registry
Deregister_Clear(reg, key) == <<>>

\* mutant: the finally block leaves the entry in place
Deregister_Keeps(reg, key) == reg

\* the finally block of _run_demucs: if job_id in ACTIVE_PROCESSES: del
Deregister(reg, key) ==
    IF key \in DOMAIN reg THEN [k \in DOMAIN reg \ {key} |-> reg[k]] ELSE reg

Handle(j, pass) == [job |-> j, pass |-> pass]

\* mutant: poll() is not consulted
LiveProcess_AnyEntry(reg, key) == key \in DOMAIN reg

\* process_to_kill and process_to_kill.poll() is None
LiveProcess(reg, key) ==
    /\ key \in DOMAIN reg
    /\ proc[reg[key].job].pass = reg[key].pass
    /\ proc[reg[key].job].st = "running"

\* ------------------------------------------------------------- the engine
\* the directory one engine invocation writes its stems to
EngineOutDir(c, pass) ==
    IF pass = "pass1" THEN TrackDir(used_model(c), base_name(c.input))
    ELSE IF c.components = 6 THEN AdvancedDir6(c.model)
    ELSE AdvancedDir8(pass)

NoStem(stem) ==
    CASE stem = "vocals" -> "no_vocals"
      [] stem = "drums" -> "no_drums"
      [] stem = "other" -> "no_other"

\* the stems one engine invocation produces (--two-stems gives stem, no_stem)
EngineStems(pass) ==
    IF pass = "pass1" THEN Range(BaseStems) ELSE {pass, NoStem(pass)}

\* what an engine run may leave on disk: all of its stems but MaxMissing
MaxMissing == 1
WriteChoices(pass) ==
    {S \in SUBSET EngineStems(pass) :
        /\ S # {}
        /\ Cardinality(EngineStems(pass) \ S) <= MaxMissing}

RECURSIVE WriteAll(_, _, _, _)
WriteAll(f, d, S, content) ==
    IF S = {} THEN f
    ELSE LET s == CHOOSE x \in S : TRUE
         IN WriteAll(WriteFile(f, File(d, Wav(s)), content), d, S \ {s}, content)

NewProc(pass, key) ==
    [pass |-> pass, key |-> key, st |-> "running", rc |-> 0,
     pipe |-> <<>>, emitted |-> 0, wrote |-> FALSE]

\* mutant: the kill code is not exempted
IsEngineFailure_NonZero(rc) == rc # 0

\* proc.returncode != 0 and proc.returncode != -9
IsEngineFailure(rc) == rc # 0 /\ rc # KILLED

\* ------------------------------------------------------------- assembly
\* mutant: the first missing source ends the copying
RECURSIVE CopyTable_StopAtMissing(_, _)
CopyTable_StopAtMissing(f, table) ==
    IF table = <<>> THEN f
    ELSE LET e == Head(table)
         IN IF Exists(f, e[1])
            THEN CopyTable_StopAtMissing(Copy(f, e[1], e[2]), Tail(table))
            ELSE f

\* shutil.copy(src, dst) for each table entry whose source exists; the file
\* system after one entry is bound as g before the next entry is handled
RECURSIVE CopyTable(_, _)
CopyTable(f, table) ==
    IF table = <<>> THEN f
    ELSE LET e == Head(table)
         IN CHOOSE r \in {CopyTable(g, Tail(table)) :
                            g \in {IF Exists(f, e[1]) THEN Copy(f, e[1], e[2]) ELSE f}} : TRUE

create_6_component_structure(f, ds, track_dir, base, model) ==
    LET advanced_dir == AdvancedDir6(model)
        final_dir == FinalDir6(base)
        components == [i \in 1..4 |->
            <<File(track_dir, Wav(BaseStems[i])), File(final_dir, Wav(BaseStems[i]))>>]
    IN CHOOSE r \in {IF advanced_dir \in ds
                      THEN CopyTable(f1,
                             << <<File(advanced_dir, "other.wav"), File(final_dir, "piano.wav")>>,
                                <<File(advanced_dir, "no_other.wav"), File(final_dir, "guitar.wav")>> >>)
                      ELSE f1 : f1 \in {CopyTable(f, components)}} : TRUE

\* mutant: the table lacks the guitar entry
file_map_NoGuitar(track_dir, final_dir) ==
    << <<File(track_dir, "vocals.wav"), File(final_dir, "vocals.wav")>>,
       <<File(track_dir, "drums.wav"), File(final_dir, "drums.wav")>>,
       <<File(track_dir, "bass.wav"), File(final_dir, "bass.wav")>>,
       <<File(track_dir, "other.wav"), File(final_dir, "other.wav")>>,
       <<File(AdvancedDir8("vocals"), "vocals.wav"), File(final_dir, "lead_vocals.wav")>>,
       <<File(AdvancedDir8("vocals"), "no_vocals.wav"), File(final_dir, "harmony.wav")>>,
       <<File(AdvancedDir8("drums"), "drums.wav"), File(final_dir, "kick_snare.wav")>>,
       <<File(AdvancedDir8("drums"), "no_drums.wav"), File(final_dir, "cymbals.wav")>>,
       <<File(AdvancedDir8("other"), "other.wav"), File(final_dir, "piano.wav")>> >>

file_map(track_dir, final_dir) ==
    << <<File(track_dir, "vocals.wav"), File(final_dir, "vocals.wav")>>,
       <<File(track_dir, "drums.wav"), File(final_dir, "drums.wav")>>,
       <<File(track_dir, "bass.wav"), File(final_dir, "bass.wav")>>,
       <<File(track_dir, "other.wav"), File(final_dir, "other.wav")>>,
       <<File(AdvancedDir8("vocals"), "vocals.wav"), File(final_dir, "lead_vocals.wav")>>,
       <<File(AdvancedDir8("vocals"), "no_vocals.wav"), File(final_dir, "harmony.wav")>>,
       <<File(AdvancedDir8("drums"), "drums.wav"), File(final_dir, "kick_snare.wav")>>,
       <<File(AdvancedDir8("drums"), "no_drums.wav"), File(final_dir, "cymbals.wav")>>,
       <<File(AdvancedDir8("other"), "other.wav"), File(final_dir, "piano.wav")>>,
       <<File(AdvancedDir8("other"), "no_other.wav"), File(final_dir, "guitar.wav")>> >>

create_8_component_structure_direct(f, track_dir, base) ==
    CopyTable(f, file_map(track_dir, FinalDir8(base)))

\* ------------------------------------------------------------ enhancement
EnhanceStems4 == <<"vocals", "drums", "bass", "other">>
EnhanceStems6 == <<"vocals", "drums", "bass", "piano", "guitar", "other">>
\* _get_enhancement_map().keys()
EnhanceStems8 == <<"vocals", "drums", "bass", "other", "piano", "guitar",
                   "lead_vocals", "harmony", "kick_snare", "cymbals">>

Enhanced(content) == [content EXCEPT !.enh = TRUE]

\* one iteration of the loop of enhance_N_components on input_path; ok is the
\* return value of enhance_audio (False: the signal trimmed to empty, or an
\* exception was caught)
EnhanceOne(f, input_path, ok) ==
    IF ~Exists(f, input_path) THEN f
    ELSE IF ok
         THEN \* os.remove(input_path); os.rename(temp_enhanced_path, input_path)
              CHOOSE r \in {WriteFile(g, input_path, Enhanced(f[input_path])) :
                              g \in {Remove(f, input_path)}} : TRUE
         ELSE \* os.remove(input_path)
              Remove(f, input_path)

\* enhance_N_components: failed is the set of stems for which enhance_audio
\* returns False
RECURSIVE EnhanceLoop(_, _, _, _)
EnhanceLoop(f, track_dir, stems, failed) ==
    IF stems = <<>> THEN f
    ELSE CHOOSE r \in {EnhanceLoop(g, track_dir, Tail(stems), failed) :
                         g \in {EnhanceOne(f, File(track_dir, Wav(Head(stems))),
                                           Head(stems) \notin failed)}} : TRUE

enhance_components(f, ds, track_dir, stems, failed) ==
    IF track_dir \notin ds THEN f ELSE EnhanceLoop(f, track_dir, stems, failed)

\* the stems whose signal may trim to empty (or fail to load or save)
SilentCandidates == {"vocals", "piano"}

\* the stems enhance_audio may return False for in one Enhance step
FailChoices(f, track_dir, stems) ==
    SUBSET {s \in Range(stems) \cap SilentCandidates : Exists(f, File(track_dir, Wav(s)))}

\* ------------------------------------------------ get_separation_results
files_to_check(components) ==
    CASE components = 4 -> <<"vocals.wav", "drums.wav", "bass.wav", "other.wav">>
      [] components = 6 -> <<"vocals.wav", "drums.wav", "bass.wav", "piano.wav",
                             "guitar.wav", "other.wav">>
      [] components = 8 -> <<"vocals.wav", "drums.wav", "bass.wav", "other.wav",
                             "lead_vocals.wav", "harmony.wav", "kick_snare.wav",
                             "cymbals.wav", "piano.wav", "guitar.wav">>
      [] OTHER -> <<>>

\* os.path.join(output_dir, relative_dir)
relative_dir(input, components, model) ==
    CASE components = 4 -> TrackDir(model, base_name(input))
      [] components = 6 -> FinalDir6(base_name(input))
      [] components = 8 -> FinalDir8(base_name(input))
      [] OTHER -> Dir("", "", "")

\* filename.replace('_', ' ').replace('.wav', '').title()
DisplayName(filename) ==
    CASE filename = "vocals.wav" -> "Vocals"
      [] filename = "drums.wav" -> "Drums"
      [] filename = "bass.wav" -> "Bass"
      [] filename = "other.wav" -> "Other"
      [] filename = "piano.wav" -> "Piano"
      [] filename = "guitar.wav" -> "Guitar"
      [] filename = "lead_vocals.wav" -> "Lead Vocals"
      [] filename = "harmony.wav" -> "Harmony"
      [] filename = "kick_snare.wav" -> "Kick Snare"
      [] filename = "cymbals.wav" -> "Cymbals"

\* mutant: every expected name is listed, on disk or not
RECURSIVE CheckFiles_All(_, _, _)
CheckFiles_All(f, d, names) ==
    IF names = <<>> THEN <<>>
    ELSE <<[name |-> DisplayName(Head(names)), path |-> File(d, Head(names))]>>
         \o CheckFiles_All(f, d, Tail(names))

RECURSIVE CheckFiles(_, _, _)
CheckFiles(f, d, names) ==
    IF names = <<>> THEN <<>>
    ELSE (IF Exists(f, File(d, Head(names)))
          THEN <<[name |-> DisplayName(Head(names)), path |-> File(d, Head(names))]>>
          ELSE <<>>) \o CheckFiles(f, d, Tail(names))

get_separation_results(f, input, components, model) ==
    CheckFiles(f, relative_dir(input, components, model), files_to_check(components))

NoListing == [components |-> 0, model |-> "", results |-> <<>>]

\* ------------------------------------------------------------------ events
\* progress_callback(line) as relayed by generate_progress
Line(pass, n) == [t |-> "line", pass |-> pass, n |-> n]
Msg(id) == [t |-> "msg", pass |-> id, n |-> 0]
\* "data: ERROR: ..."
ErrorEvent == [t |-> "error", pass |-> "", n |-> 0]
\* "data: SEPARATION_COMPLETE::..."
CompleteEvent == [t |-> "complete", pass |-> "", n |-> 0]

\* one entry of a job's log: an engine spawn, an assembly, or an Enhance step
\* with the stems for which enhance_audio returned False
Op(op, pass, model, failed) == [op |-> op, pass |-> pass, model |-> model, failed |-> failed]

\* ------------------------------------------------------------ initial state
Configs ==
    [input : {"a.mp3"}, exists : BOOLEAN, components : ComponentChoices,
     model : Models, enhance : BOOLEAN]

IdleConfig ==
    [input |-> "", exists |-> FALSE, components |-> 4, model |-> "htdemucs",
     enhance |-> FALSE]

\* one separation request on an empty output root
PipelineInit ==
    /\ \E c \in Configs : cfg = [j \in Jobs |-> IF j = "j1" THEN c ELSE IdleConfig]
    /\ pc = [j \in Jobs |-> IF j = "j1" THEN "init" ELSE "idle"]
    /\ proc = [j \in Jobs |-> NoProc]
    /\ ACTIVE_PROCESSES = <<>>
    /\ fs = <<>>
    /\ dirs = {}
    /\ events = [j \in Jobs |-> <<>>]
    /\ ops = [j \in Jobs |-> <<>>]
    /\ cancelled = [j \in Jobs |-> {}]
    /\ cancel_reply = [j \in Jobs |-> "none"]
    /\ listing = [j \in Jobs |-> NoListing]

\* --------------------------------------------------- pipeline: first step
Emit(j, evs) == events' = [events EXCEPT ![j] = @ \o evs]

\* subprocess.Popen(...); ACTIVE_PROCESSES[job_id] = proc
Spawn(j, pass, key, reg) ==
    /\ proc' = [proc EXCEPT ![j] = NewProc(pass, key)]
    /\ ACTIVE_PROCESSES' = Register(reg, key, Handle(j, pass))
    /\ ops' = [ops EXCEPT ![j] = Append(@, Op("spawn", pass, used_model(cfg[j]), {}))]

\* separate_audio_ultra returns; generate_progress yields SEPARATION_COMPLETE
Finish(j, evs) ==
    /\ Emit(j, evs \o <<CompleteEvent>>)
    /\ pc' = [pc EXCEPT ![j] = "done"]

\* if not os.path.exists(input_file): yield ERROR; return
StartInputMissing(j) ==
    /\ pc[j] = "init"
    /\ ~cfg[j].exists
    /\ Finish(j, <<ErrorEvent>>)
    /\ UNCHANGED <<fvars, rvars, cfg, proc, ACTIVE_PROCESSES, fs, dirs, ops, cancelled>>

\* components not in (4, 6, 8): no branch runs, print_ultra_components_info
\* reads the unbound track_dir, except Exception yields ERROR
StartUnknownComponents(j) ==
    /\ pc[j] = "init"
    /\ cfg[j].exists
    /\ cfg[j].components \notin {4, 6, 8}
    /\ Finish(j, <<ErrorEvent>>)
    /\ UNCHANGED <<fvars, rvars, cfg, proc, ACTIVE_PROCESSES, fs, dirs, ops, cancelled>>

\* the first _run_demucs call of _separate_N_components, up to its first readline
StartPass1(j) ==
    /\ pc[j] = "init"
    /\ cfg[j].exists
    /\ cfg[j].components \in {4, 6, 8}
    /\ Emit(j, IF cfg[j].components = 6 THEN <<Msg("pass1of2")>> ELSE <<>>)
    /\ Spawn(j, "pass1", job_id(cfg[j]), ACTIVE_PROCESSES)
    /\ pc' = [pc EXCEPT ![j] = "run"]
    /\ UNCHANGED <<fvars, rvars, cfg, fs, dirs, cancelled>>

\* ------------------------------------------------------- the engine process
\* lines written so far by the engine processes of job j
LinesSoFar(j) ==
    Cardinality({i \in 1..Len(events[j]) : events[j][i].t = "line"}) + Len(proc[j].pipe)

\* the engine writes one line to stderr
EngineEmit(j) ==
    /\ proc[j].st = "running"
    /\ LinesSoFar(j) < MaxLines
    /\ proc' = [proc EXCEPT ![j].emitted = @ + 1,
                            ![j].pipe = Append(@, proc[j].emitted + 1)]
    /\ UNCHANGED <<fvars, rvars, cfg, pc, ACTIVE_PROCESSES, fs, dirs, events, ops, cancelled>>

\* the engine saves its stems
EngineWrite(j) ==
    /\ proc[j].st = "running"
    /\ ~proc[j].wrote
    /\ \E S \in WriteChoices(proc[j].pass) :
         LET d == EngineOutDir(cfg[j], proc[j].pass)
         IN /\ fs' = WriteAll(fs, d, S, [by |-> j, enh |-> FALSE])
            /\ dirs' = dirs \cup {d}
    /\ proc' = [proc EXCEPT ![j].wrote = TRUE]
    /\ UNCHANGED <<fvars, rvars, cfg, pc, ACTIVE_PROCESSES, events, ops, cancelled>>

\* the engine exits by itself: with 0 after it saved its stems, or with an error
EngineExit(j) ==
    /\ proc[j].st = "running"
    /\ \E rc \in ExitCodes :
         /\ rc = 0 => proc[j].wrote
         /\ proc' = [proc EXCEPT ![j].st = "exited", ![j].rc = rc]
    /\ UNCHANGED <<fvars, rvars, cfg, pc, ACTIVE_PROCESSES, fs, dirs, events, ops, cancelled>>

\* app.py cancel_process for the session whose last_file is job j's upload
cancel_process(j) ==
    LET key == job_id(cfg[j])
    IN /\ pc[j] # "idle"
       /\ IF LiveProcess(ACTIVE_PROCESSES, key)
          THEN \* process_to_kill.kill(); return 200
               LET h == ACTIVE_PROCESSES[key]
               IN /\ proc' = [proc EXCEPT ![h.job].st = "exited", ![h.job].rc = KILLED]
                  /\ cancelled' = [cancelled EXCEPT ![h.job] = @ \cup {h.pass}]
                  /\ cancel_reply' = [cancel_reply EXCEPT ![j] = "200 cancelled"]
          ELSE \* return 404
               /\ cancel_reply' = [cancel_reply EXCEPT ![j] = "404 not found"]
               /\ UNCHANGED <<proc, cancelled>>
       /\ UNCHANGED <<fvars, listing, cfg, pc, ACTIVE_PROCESSES, fs, dirs, events, ops>>

\* mutant: the newest line of the pipe is delivered first
ReadLine_Newest(j) ==
    /\ pc[j] = "run"
    /\ proc[j].pipe # <<>>
    /\ Emit(j, <<Line(proc[j].pass, proc[j].pipe[Len(proc[j].pipe)])>>)
    /\ proc' = [proc EXCEPT ![j].pipe = SubSeq(@, 1, Len(@) - 1)]
    /\ UNCHANGED <<fvars, rvars, cfg, pc, ACTIVE_PROCESSES, fs, dirs, ops, cancelled>>

\* ---------------------------------------------- _run_demucs: the line loop
\* for line in iter(proc.stderr.readline, ''): yield progress_callback(line)
ReadLine(j) ==
    /\ pc[j] = "run"
    /\ proc[j].pipe # <<>>
    /\ Emit(j, <<Line(proc[j].pass, Head(proc[j].pipe))>>)
    /\ proc' = [proc EXCEPT ![j].pipe = Tail(@)]
    /\ UNCHANGED <<fvars, rvars, cfg, pc, ACTIVE_PROCESSES, fs, dirs, ops, cancelled>>

\* readline returns '' (the process has exited and the pipe is drained);
\* proc.communicate() returns
CallEnds(j) ==
    /\ pc[j] = "run"
    /\ proc[j].st = "exited"
    /\ proc[j].pipe = <<>>

\* the registry after the finally block of the current call
Released(j) == Deregister(ACTIVE_PROCESSES, proc[j].key)

\* the generator is suspended at the yield inside the line loop
AtLineYield(j) ==
    /\ pc[j] = "run"
    /\ events[j] # <<>>
    /\ events[j][Len(events[j])].t = "line"
    /\ events[j][Len(events[j])].pass = proc[j].pass

\* mutant: the release deletes the entry and leaves the process running
Abandon_NoKill(j) ==
    /\ AtLineYield(j)
    /\ ACTIVE_PROCESSES' = Released(j)
    /\ pc' = [pc EXCEPT ![j] = "abandoned"]
    /\ UNCHANGED <<fvars, rvars, cfg, proc, fs, dirs, events, ops, cancelled>>

\* the consumer closes the generator: GeneratorExit at the yield, then finally:
\* del ACTIVE_PROCESSES[job_id]; if proc.poll() is None: proc.kill()
Abandon(j) ==
    /\ AtLineYield(j)
    /\ ACTIVE_PROCESSES' = Released(j)
    /\ proc' = [proc EXCEPT ![j].st = "exited",
                            ![j].rc = IF proc[j].st = "running" THEN KILLED ELSE @]
    /\ pc' = [pc EXCEPT ![j] = "abandoned"]
    /\ UNCHANGED <<fvars, rvars, cfg, fs, dirs, events, ops, cancelled>>

\* mutant: a failed pass is run again
EngineFailure_Retry(j) ==
    /\ CallEnds(j)
    /\ IsEngineFailure(proc[j].rc)
    /\ Spawn(j, proc[j].pass, proc[j].key, Released(j))
    /\ UNCHANGED <<fvars, rvars, cfg, pc, fs, dirs, events, cancelled>>

\* mutant: a failed exit is swallowed and the call keeps waiting
EngineFailure_Hangs(j) ==
    /\ CallEnds(j)
    /\ IsEngineFailure(proc[j].rc)
    /\ UNCHANGED <<pvars, fvars>>

\* raise CalledProcessError; finally; separate_audio_ultra yields ERROR and
\* returns; generate_progress yields SEPARATION_COMPLETE
EngineFailure(j) ==
    /\ CallEnds(j)
    /\ IsEngineFailure(proc[j].rc)
    /\ ACTIVE_PROCESSES' = Released(j)
    /\ Finish(j, <<ErrorEvent>>)
    /\ UNCHANGED <<fvars, rvars, cfg, proc, fs, dirs, ops, cancelled>>

\* ------------------------------------------- _separate_4_components
Finish4(j) ==
    LET c == cfg[j]
        track_dir == TrackDir(c.model, base_name(c.input))
    IN /\ CallEnds(j)
       /\ ~IsEngineFailure(proc[j].rc)
       /\ c.components = 4
       /\ ACTIVE_PROCESSES' = Released(j)
       /\ IF c.enhance
          THEN \E failed \in FailChoices(fs, track_dir, EnhanceStems4) :
                 /\ fs' = enhance_components(fs, dirs, track_dir, EnhanceStems4, failed)
                 /\ ops' = [ops EXCEPT ![j] = Append(@, Op("enhance", "", c.model, failed))]
          ELSE UNCHANGED <<fs, ops>>
       /\ Finish(j, <<>>)
       /\ UNCHANGED <<fvars, rvars, cfg, proc, dirs, cancelled>>

\* ------------------------------------------- _separate_6_components
\* after Pass1: os.path.exists(other_file), then the second _run_demucs call
SecondPass6(j) ==
    LET c == cfg[j]
        track_dir == TrackDir(c.model, base_name(c.input))
    IN /\ CallEnds(j)
       /\ ~IsEngineFailure(proc[j].rc)
       /\ c.components = 6
       /\ proc[j].pass = "pass1"
       /\ Exists(fs, File(track_dir, "other.wav"))
       /\ Emit(j, <<Msg("pass2of2")>>)
       /\ Spawn(j, "other", sub_job_id(c, "other"), Released(j))
       /\ UNCHANGED <<fvars, rvars, cfg, pc, fs, dirs, cancelled>>

\* mutant: a missing other.wav is reported as an error
SkipSecondPass6_Error(j) ==
    LET c == cfg[j]
        track_dir == TrackDir(c.model, base_name(c.input))
    IN /\ CallEnds(j)
       /\ ~IsEngineFailure(proc[j].rc)
       /\ c.components = 6
       /\ proc[j].pass = "pass1"
       /\ ~Exists(fs, File(track_dir, "other.wav"))
       /\ ACTIVE_PROCESSES' = Released(j)
       /\ Finish(j, <<ErrorEvent>>)
       /\ UNCHANGED <<fvars, rvars, cfg, proc, fs, dirs, ops, cancelled>>

\* after Pass1: other.wav is absent, the function returns
SkipSecondPass6(j) ==
    LET c == cfg[j]
        track_dir == TrackDir(c.model, base_name(c.input))
    IN /\ CallEnds(j)
       /\ ~IsEngineFailure(proc[j].rc)
       /\ c.components = 6
       /\ proc[j].pass = "pass1"
       /\ ~Exists(fs, File(track_dir, "other.wav"))
       /\ ACTIVE_PROCESSES' = Released(j)
       /\ Finish(j, <<>>)
       /\ UNCHANGED <<fvars, rvars, cfg, proc, fs, dirs, ops, cancelled>>

\* after Pass2: create_6_component_structure, then enhance_6_components
Finish6(j) ==
    LET c == cfg[j]
        base == base_name(c.input)
        track_dir == TrackDir(c.model, base)
        ds == dirs \cup {FinalDir6(base)}
    IN /\ CallEnds(j)
       /\ ~IsEngineFailure(proc[j].rc)
       /\ c.components = 6
       /\ proc[j].pass = "other"
       /\ ACTIVE_PROCESSES' = Released(j)
       /\ dirs' = ds
       /\ \E assembled \in {create_6_component_structure(fs, dirs, track_dir, base, c.model)} :
            IF c.enhance
            THEN /\ \E failed \in FailChoices(assembled, FinalDir6(base), EnhanceStems6) :
                      /\ fs' = enhance_components(assembled, ds, FinalDir6(base), EnhanceStems6, failed)
                      /\ ops' = [ops EXCEPT ![j] = @ \o <<Op("assemble", "", c.model, {}),
                                                           Op("enhance", "", c.model, failed)>>]
                 /\ Finish(j, <<Msg("enhancing")>>)
            ELSE /\ fs' = assembled
                 /\ ops' = [ops EXCEPT ![j] = Append(@, Op("assemble", "", c.model, {}))]
                 /\ Finish(j, <<>>)
       /\ UNCHANGED <<fvars, rvars, cfg, proc, cancelled>>

\* ------------------------------------------- _separate_8_components
PassIndex(pass) ==
    CASE pass = "pass1" -> 0
      [] pass = "vocals" -> 1
      [] pass = "drums" -> 2
      [] pass = "other" -> 3

\* mutant: the loop stops at the first stem whose file is missing
StemsAhead_Break(f, track_dir, pass) ==
    {i \in 1..Len(stems_to_separate) :
        /\ i > PassIndex(pass)
        /\ \A k \in (PassIndex(pass) + 1)..i :
              Exists(f, File(track_dir, Wav(stems_to_separate[k])))}

\* the iterations of "for stem, adv_dir in stems_to_separate.items()" that are
\* still ahead and whose stem_file exists
StemsAhead(f, track_dir, pass) ==
    {i \in 1..Len(stems_to_separate) :
        /\ i > PassIndex(pass)
        /\ Exists(f, File(track_dir, Wav(stems_to_separate[i])))}

\* after Pass1: track_dir does not exist, the function returns
NoTrackDir8(j) ==
    LET c == cfg[j]
        track_dir == TrackDir(best_model, base_name(c.input))
    IN /\ CallEnds(j)
       /\ ~IsEngineFailure(proc[j].rc)
       /\ c.components = 8
       /\ proc[j].pass = "pass1"
       /\ track_dir \notin dirs
       /\ ACTIVE_PROCESSES' = Released(j)
       /\ Finish(j, <<>>)
       /\ UNCHANGED <<fvars, rvars, cfg, proc, fs, dirs, ops, cancelled>>

\* the loop reaches a stem whose file exists: the next _run_demucs call
NextSubPass8(j) ==
    LET c == cfg[j]
        track_dir == TrackDir(best_model, base_name(c.input))
        ahead == StemsAhead(fs, track_dir, proc[j].pass)
    IN /\ CallEnds(j)
       /\ ~IsEngineFailure(proc[j].rc)
       /\ c.components = 8
       /\ track_dir \in dirs
       /\ ahead # {}
       /\ LET i == CHOOSE x \in ahead : \A y \in ahead : x <= y
              stem == stems_to_separate[i]
          IN Spawn(j, stem, sub_job_id(c, stem), Released(j))
       /\ Emit(j, IF proc[j].pass = "pass1" THEN <<Msg("pass2of2")>> ELSE <<>>)
       /\ UNCHANGED <<fvars, rvars, cfg, pc, fs, dirs, cancelled>>

\* the loop is over: create_8_component_structure_direct, enhance_8_components
Finish8(j) ==
    LET c == cfg[j]
        base == base_name(c.input)
        track_dir == TrackDir(best_model, base)
        ds == dirs \cup {FinalDir8(base)}
        first == IF proc[j].pass = "pass1" THEN <<Msg("pass2of2")>> ELSE <<>>
    IN /\ CallEnds(j)
       /\ ~IsEngineFailure(proc[j].rc)
       /\ c.components = 8
       /\ track_dir \in dirs
       /\ StemsAhead(fs, track_dir, proc[j].pass) = {}
       /\ ACTIVE_PROCESSES' = Released(j)
       /\ dirs' = ds
       /\ \E assembled \in {create_8_component_structure_direct(fs, track_dir, base)} :
            IF c.enhance
            THEN /\ \E failed \in FailChoices(assembled, FinalDir8(base), EnhanceStems8) :
                      /\ fs' = enhance_components(assembled, ds, FinalDir8(base), EnhanceStems8, failed)
                      /\ ops' = [ops EXCEPT ![j] = @ \o <<Op("assemble", "", best_model, {}),
                                                           Op("enhance", "", best_model, failed)>>]
                 /\ Finish(j, first \o <<Msg("enhancing")>>)
            ELSE /\ fs' = assembled
                 /\ ops' = [ops EXCEPT ![j] = Append(@, Op("assemble", "", best_model, {}))]
                 /\ Finish(j, first)
       /\ UNCHANGED <<fvars, rvars, cfg, proc, cancelled>>

\* ================================================================== fusion
Requests == {"r1", "r2"}
Songs == {"a.mp3", "b.mp3"}
\* the iteration order of fusion_map.items()
Roles == <<"vocals", "drums">>
Volumes == {1, 2}
\* data.get('model_map'), data.get('components_map')
model_map == [s \in Songs |-> "htdemucs"]
components_map == [s \in Songs |-> IF s = "a.mp3" THEN 4 ELSE 6]

\* s['name'].lower()
Lower(name) ==
    CASE name = "Vocals" -> "vocals"
      [] name = "Drums" -> "drums"
      [] name = "Bass" -> "bass"
      [] name = "Other" -> "other"
      [] name = "Piano" -> "piano"
      [] name = "Guitar" -> "guitar"
      [] name = "Lead Vocals" -> "lead vocals"
      [] name = "Harmony" -> "harmony"
      [] name = "Kick Snare" -> "kick snare"
      [] name = "Cymbals" -> "cymbals"

Assignments == [song_id : Songs \cup {""}, volume : Volumes, is_muted : BOOLEAN]

NoRequest ==
    [fusion_map |-> [x \in Range(Roles) |-> [song_id |-> "", volume |-> 1, is_muted |-> FALSE]],
     master_tempo_song_id |-> ""]

\* the canonical stem files a finished separation of song s left for the roles
StemFile(s, role) == File(relative_dir(s, components_map[s], model_map[s]), Wav(role))

FusionIdle ==
    /\ request = [r \in Requests |-> NoRequest]
    /\ uploads = {}
    /\ bpm = [s \in Songs |-> 0]
    /\ fpc = [r \in Requests |-> "idle"]
    /\ role_index = [r \in Requests |-> 1]
    /\ stems_to_fuse = [r \in Requests |-> <<>>]
    /\ temp_fusion = <<>>
    /\ fused_tracks = {}
    /\ response = [r \in Requests |-> "none"]
    /\ stretch_log = [r \in Requests |-> <<>>]

\* one fusion request over the stems earlier separations left on disk
FusionInit ==
    /\ \E m \in [Range(Roles) -> Assignments] :
         request = [r \in Requests |->
                      IF r = "r1" THEN [fusion_map |-> m, master_tempo_song_id |-> "a.mp3"]
                      ELSE NoRequest]
    /\ uploads \in {{}, Songs}
    /\ \E t \in {0, 120} : bpm = [s \in Songs |-> IF s = "a.mp3" THEN t ELSE 90]
    /\ \E present \in SUBSET (Songs \X Range(Roles)) :
         /\ fs = [p \in {StemFile(x[1], x[2]) : x \in present} |-> [by |-> "j1", enh |-> FALSE]]
         /\ dirs = {p.dir : p \in {StemFile(x[1], x[2]) : x \in present}}
    /\ fpc = [r \in Requests |-> IF r = "r1" THEN "start" ELSE "idle"]
    /\ role_index = [r \in Requests |-> 1]
    /\ stems_to_fuse = [r \in Requests |-> <<>>]
    /\ temp_fusion = <<>>
    /\ fused_tracks = {}
    /\ response = [r \in Requests |-> "none"]
    /\ stretch_log = [r \in Requests |-> <<>>]
    /\ cfg = [j \in Jobs |-> IdleConfig]
    /\ pc = [j \in Jobs |-> "idle"]
    /\ proc = [j \in Jobs |-> NoProc]
    /\ ACTIVE_PROCESSES = <<>>
    /\ events = [j \in Jobs |-> <<>>]
    /\ ops = [j \in Jobs |-> <<>>]
    /\ cancelled = [j \in Jobs |-> {}]
    /\ cancel_reply = [j \in Jobs |-> "none"]
    /\ listing = [j \in Jobs |-> NoListing]

\* get_bpm(path): the detected tempo, 0 when detection fails
get_bpm(song) == bpm[song]

\* what one time_stretch_audio call may do: write the stretched file, fail
\* without writing it, or raise
StretchOutcomes == {"ok", "failed", "raised"}

\* what fuse_stems may return: False whenever a stem cannot be loaded
MixOutcomes(tmp, stems) ==
    IF \A i \in 1..Len(stems) : stems[i].path \in DOMAIN tmp THEN BOOLEAN ELSE {FALSE}

\* os.path.join(temp_dir, f"{song_id}_{stem_name}.wav")
stretched_stem_path(song_id, stem_name) == [song_id |-> song_id, stem_name |-> stem_name]

Respond(r, code) ==
    /\ response' = [response EXCEPT ![r] = code]
    /\ fpc' = [fpc EXCEPT ![r] = "done"]

\* mutant: the master tempo is not checked
FuseStart_NoTempoCheck(r) ==
    /\ fpc[r] = "start"
    /\ IF request[r].master_tempo_song_id \notin uploads
       THEN Respond(r, "404 master not found")
       ELSE /\ fpc' = [fpc EXCEPT ![r] = "loop"]
            /\ UNCHANGED response
    /\ UNCHANGED <<pvars, request, uploads, bpm, role_index, stems_to_fuse,
                   temp_fusion, fused_tracks, stretch_log>>

\* step 1 of fuse_tracks: the master song exists and its tempo is detected
FuseStart(r) ==
    /\ fpc[r] = "start"
    /\ IF request[r].master_tempo_song_id \notin uploads
       THEN Respond(r, "404 master not found")
       ELSE IF get_bpm(request[r].master_tempo_song_id) = 0
       THEN Respond(r, "400 no master bpm")
       ELSE /\ fpc' = [fpc EXCEPT ![r] = "loop"]
            /\ UNCHANGED response
    /\ UNCHANGED <<pvars, request, uploads, bpm, role_index, stems_to_fuse,
                   temp_fusion, fused_tracks, stretch_log>>

\* the loop over fusion_map.items(): the current role and its payload
InLoop(r) == fpc[r] = "loop" /\ role_index[r] <= Len(Roles)
stem_name(r) == Roles[role_index[r]]
stem_data(r) == request[r].fusion_map[stem_name(r)]

\* the end of one iteration; after the last one the loop is left
NextRole(r) ==
    /\ role_index' = [role_index EXCEPT ![r] = @ + 1]
    /\ fpc' = [fpc EXCEPT ![r] = IF role_index[r] = Len(Roles) THEN "mix" ELSE "loop"]

\* mutant: a muted or unassigned role is collected (merely zero-scaled)
FuseSkipRole_Collects(r) ==
    /\ InLoop(r)
    /\ stem_data(r).song_id = "" \/ stem_data(r).is_muted
    /\ stems_to_fuse' = [stems_to_fuse EXCEPT ![r] =
                           Append(@, [path |-> stretched_stem_path(stem_data(r).song_id, stem_name(r)),
                                      volume |-> 0])]
    /\ NextRole(r)
    /\ UNCHANGED <<pvars, request, uploads, bpm, temp_fusion,
                   fused_tracks, response, stretch_log>>

\* if not song_id or is_muted: continue
FuseSkipRole(r) ==
    /\ InLoop(r)
    /\ stem_data(r).song_id = "" \/ stem_data(r).is_muted
    /\ NextRole(r)
    /\ UNCHANGED <<pvars, request, uploads, bpm, stems_to_fuse, temp_fusion,
                   fused_tracks, response, stretch_log>>

\* the stem the role names, as get_separation_results lists it and as it is
\* on disk; <<>> when there is none
original_stem_path(r) ==
    LET song_id == stem_data(r).song_id
        all_stems == get_separation_results(fs, song_id, components_map[song_id],
                                            model_map[song_id])
        hits == {i \in 1..Len(all_stems) : Lower(all_stems[i].name) = stem_name(r)}
    IN IF hits = {} THEN <<>>
       ELSE LET p == all_stems[CHOOSE i \in hits : \A k \in hits : i <= k].path
            IN IF Exists(fs, p) THEN <<p>> ELSE <<>>

Selected(r) ==
    /\ InLoop(r)
    /\ stem_data(r).song_id # ""
    /\ ~stem_data(r).is_muted

\* mutant: a missing stem fails the whole request
FuseMissingStem_Fails(r) ==
    /\ Selected(r)
    /\ original_stem_path(r) = <<>>
    /\ Respond(r, "404 stem not found")
    /\ UNCHANGED <<pvars, request, uploads, bpm, role_index, stems_to_fuse,
                   temp_fusion, fused_tracks, stretch_log>>

\* if not original_stem_path or not os.path.exists(original_stem_path): continue
FuseMissingStem(r) ==
    /\ Selected(r)
    /\ original_stem_path(r) = <<>>
    /\ NextRole(r)
    /\ UNCHANGED <<pvars, request, uploads, bpm, stems_to_fuse, temp_fusion,
                   fused_tracks, response, stretch_log>>

StemInfo(r) ==
    [path |-> stretched_stem_path(stem_data(r).song_id, stem_name(r)),
     volume |-> stem_data(r).volume]

ScratchContent(r, stretched) == [by |-> r, role |-> stem_name(r), stretched |-> stretched]

\* song_id == master_tempo_song_id: shutil.copy, then stems_to_fuse.append
FuseCopy(r) ==
    /\ Selected(r)
    /\ original_stem_path(r) # <<>>
    /\ stem_data(r).song_id = request[r].master_tempo_song_id
    /\ temp_fusion' = WriteFile(temp_fusion, StemInfo(r).path, ScratchContent(r, FALSE))
    /\ stems_to_fuse' = [stems_to_fuse EXCEPT ![r] = Append(@, StemInfo(r))]
    /\ NextRole(r)
    /\ UNCHANGED <<pvars, request, uploads, bpm, fused_tracks, response, stretch_log>>

\* time_stretch_audio returns (having written the file or not), then
\* stems_to_fuse.append
FuseStretch(r) ==
    /\ Selected(r)
    /\ original_stem_path(r) # <<>>
    /\ stem_data(r).song_id # request[r].master_tempo_song_id
    /\ \E outcome \in StretchOutcomes \ {"raised"} :
         /\ temp_fusion' = IF outcome = "ok"
                           THEN WriteFile(temp_fusion, StemInfo(r).path, ScratchContent(r, TRUE))
                           ELSE temp_fusion
         /\ stretch_log' = [stretch_log EXCEPT ![r] =
                              Append(@, [role |-> stem_name(r), outcome |-> outcome])]
    /\ stems_to_fuse' = [stems_to_fuse EXCEPT ![r] = Append(@, StemInfo(r))]
    /\ NextRole(r)
    /\ UNCHANGED <<pvars, request, uploads, bpm, fused_tracks, response>>

\* time_stretch_audio raises: the exception leaves fuse_tracks
FuseStretchRaises(r) ==
    /\ Selected(r)
    /\ original_stem_path(r) # <<>>
    /\ stem_data(r).song_id # request[r].master_tempo_song_id
    /\ "raised" \in StretchOutcomes
    /\ stretch_log' = [stretch_log EXCEPT ![r] =
                         Append(@, [role |-> stem_name(r), outcome |-> "raised"])]
    /\ Respond(r, "500 exception")
    /\ UNCHANGED <<pvars, request, uploads, bpm, role_index, stems_to_fuse,
                   temp_fusion, fused_tracks>>

\* if not stems_to_fuse: return 400
FuseNothing(r) ==
    /\ fpc[r] = "mix"
    /\ stems_to_fuse[r] = <<>>
    /\ Respond(r, "400 no stems")
    /\ UNCHANGED <<pvars, request, uploads, bpm, role_index, stems_to_fuse,
                   temp_fusion, fused_tracks, stretch_log>>

\* if not fuse_stems(...): return 500
FuseMixFails(r) ==
    /\ fpc[r] = "mix"
    /\ stems_to_fuse[r] # <<>>
    /\ FALSE \in MixOutcomes(temp_fusion, stems_to_fuse[r])
    /\ Respond(r, "500 failed to fuse")
    /\ UNCHANGED <<pvars, request, uploads, bpm, role_index, stems_to_fuse,
                   temp_fusion, fused_tracks, stretch_log>>

\* for stem_info in stems_to_fuse: os.remove(stem_info["path"])
RECURSIVE RemoveAll(_, _)
RemoveAll(tmp, stems) ==
    IF stems = <<>> THEN tmp
    ELSE RemoveAll(Remove(tmp, Head(stems).path), Tail(stems))

\* fuse_stems succeeds: the mixed file is written, the scratch stems are
\* removed, the response is the success payload
FuseMixSucceeds(r) ==
    /\ fpc[r] = "mix"
    /\ stems_to_fuse[r] # <<>>
    /\ TRUE \in MixOutcomes(temp_fusion, stems_to_fuse[r])
    /\ fused_tracks' = fused_tracks \cup {r}
    /\ temp_fusion' = RemoveAll(temp_fusion, stems_to_fuse[r])
    /\ Respond(r, "200 success")
    /\ UNCHANGED <<pvars, request, uploads, bpm, role_index, stems_to_fuse, stretch_log>>

NextFusion ==
    \E r \in Requests :
        \/ FuseStart(r)
        \/ FuseSkipRole(r)
        \/ FuseMissingStem(r)
        \/ FuseCopy(r)
        \/ FuseStretch(r)
        \/ FuseStretchRaises(r)
        \/ FuseNothing(r)
        \/ FuseMixFails(r)
        \/ FuseMixSucceeds(r)

\* --------------------------------------------------------- specification
Init == PipelineInit /\ FusionIdle

Next ==
    \E j \in Jobs :
        \/ StartInputMissing(j)
        \/ StartUnknownComponents(j)
        \/ StartPass1(j)
        \/ EngineEmit(j)
        \/ EngineWrite(j)
        \/ EngineExit(j)
        \/ cancel_process(j)
        \/ ReadLine(j)
        \/ Abandon(j)
        \/ EngineFailure(j)
        \/ Finish4(j)
        \/ SecondPass6(j)
        \/ SkipSecondPass6(j)
        \/ Finish6(j)
        \/ NoTrackDir8(j)
        \/ NextSubPass8(j)
        \/ Finish8(j)

vars == <<pvars, fvars>>

Spec == Init /\ [][Next]_vars

SpecFusion == FusionInit /\ [][NextFusion]_vars

\* ------------------------------------------------------------- scheduling
\* the steps of the thread that drives job j's generator: each is taken as
\* soon as the blocking call it waits on (readline, communicate, file
\* operations) returns
ThreadStep(j) ==
    \/ StartInputMissing(j)
    \/ StartUnknownComponents(j)
    \/ StartPass1(j)
    \/ ReadLine(j)
    \/ EngineFailure(j)
    \/ Finish4(j)
    \/ SecondPass6(j)
    \/ SkipSecondPass6(j)
    \/ Finish6(j)
    \/ NoTrackDir8(j)
    \/ NextSubPass8(j)
    \/ Finish8(j)

\* the jobs that have a driving thread and engine processes in LiveInit
LiveJobs == {"j1"}

\* the driving thread keeps running, and an engine process does not run
\* forever: it exits by itself unless it is killed first
Fairness ==
    \A j \in LiveJobs : WF_vars(ThreadStep(j)) /\ WF_vars(EngineExit(j))

\* the requests of the fair specification: enhancement, which waits on no
\* engine process, is off
LiveConfigs ==
    [input : {"a.mp3"}, exists : BOOLEAN, components : ComponentChoices,
     model : {"htdemucs"}, enhance : {FALSE}]

LiveInit ==
    /\ \E c \in LiveConfigs : cfg = [j \in Jobs |-> IF j = "j1" THEN c ELSE IdleConfig]
    /\ pc = [j \in Jobs |-> IF j = "j1" THEN "init" ELSE "idle"]
    /\ proc = [j \in Jobs |-> NoProc]
    /\ ACTIVE_PROCESSES = <<>>
    /\ fs = <<>>
    /\ dirs = {}
    /\ events = [j \in Jobs |-> <<>>]
    /\ ops = [j \in Jobs |-> <<>>]
    /\ cancelled = [j \in Jobs |-> {}]
    /\ cancel_reply = [j \in Jobs |-> "none"]
    /\ listing = [j \in Jobs |-> NoListing]
    /\ FusionIdle

SpecLive == LiveInit /\ [][Next]_vars /\ Fairness

\* ------------------------------------------------- two concurrent requests
\* the stem counts of two concurrent requests (the two jobs are alike, so
\* the mixed pair is taken once)
TwoJobsChoices == {<<4, 4>>, <<6, 4>>, <<6, 6>>}

\* two separation requests with different uploads (unique_filename), served
\* by two threads of the same process (app.run(threaded=True))
TwoJobsInit ==
    /\ \E c \in TwoJobsChoices :
         cfg = [j \in Jobs |->
                  [input |-> IF j = "j1" THEN "a.mp3" ELSE "b.mp3",
                   exists |-> TRUE,
                   components |-> IF j = "j1" THEN c[1] ELSE c[2],
                   model |-> "htdemucs",
                   enhance |-> FALSE]]
    /\ pc = [j \in Jobs |-> "init"]
    /\ proc = [j \in Jobs |-> NoProc]
    /\ ACTIVE_PROCESSES = <<>>
    /\ fs = <<>>
    /\ dirs = {}
    /\ events = [j \in Jobs |-> <<>>]
    /\ ops = [j \in Jobs |-> <<>>]
    /\ cancelled = [j \in Jobs |-> {}]
    /\ cancel_reply = [j \in Jobs |-> "none"]
    /\ listing = [j \in Jobs |-> NoListing]
    /\ FusionIdle

\* a step of the thread that serves job j's /process request, with engines
\* that write no diagnostic lines
PipelineStep(j) ==
    \/ StartPass1(j)
    \/ EngineFailure(j)
    \/ Finish4(j)
    \/ SecondPass6(j)
    \/ SkipSecondPass6(j)
    \/ Finish6(j)

\* a step of job j's engine process
EngineStep(j) ==
    \/ EngineWrite(j)
    \/ EngineExit(j)

NextTwoJobs ==
    \E j \in Jobs :
        \/ PipelineStep(j)
        \/ EngineStep(j)
        \/ cancel_process(j)

SpecTwoJobs == TwoJobsInit /\ [][NextTwoJobs]_vars

\* ------------------------------------------------ two calls with one key
\* two concurrent 4-stem calls of separate_audio_ultra, in one process, on
\* inputs of the same file name: job_id = Path(input_file).name is the same
SameKeyInit ==
    /\ cfg = [j \in Jobs |->
                [input |-> "a.mp3", exists |-> TRUE, components |-> 4,
                 model |-> "htdemucs", enhance |-> FALSE]]
    /\ pc = [j \in Jobs |-> "init"]
    /\ proc = [j \in Jobs |-> NoProc]
    /\ ACTIVE_PROCESSES = <<>>
    /\ fs = <<>>
    /\ dirs = {}
    /\ events = [j \in Jobs |-> <<>>]
    /\ ops = [j \in Jobs |-> <<>>]
    /\ cancelled = [j \in Jobs |-> {}]
    /\ cancel_reply = [j \in Jobs |-> "none"]
    /\ listing = [j \in Jobs |-> NoListing]
    /\ FusionIdle

NextSameKey ==
    \E j \in Jobs :
        \/ StartPass1(j)
        \/ EngineStep(j)
        \/ EngineFailure(j)
        \/ Finish4(j)
        \/ cancel_process(j)

SpecSameKey == SameKeyInit /\ [][NextSameKey]_vars

\* ------------------------------------------------ two concurrent fusions
\* what a role of a concurrent request is assigned: a stem of either song,
\* or a muted stem
TwoFusionsAssignments ==
    {[song_id |-> "a.mp3", volume |-> 1, is_muted |-> FALSE],
     [song_id |-> "b.mp3", volume |-> 1, is_muted |-> FALSE],
     [song_id |-> "a.mp3", volume |-> 1, is_muted |-> TRUE]}

\* two /fuse requests served by two threads (app.run(threaded=True)), both
\* with master song a.mp3, over the stems of two finished separations
TwoFusionsInit ==
    /\ \E m1, m2 \in [Range(Roles) -> TwoFusionsAssignments] :
         request = [r \in Requests |->
                      [fusion_map |-> IF r = "r1" THEN m1 ELSE m2,
                       master_tempo_song_id |-> "a.mp3"]]
    /\ uploads = Songs
    /\ bpm = [s \in Songs |-> IF s = "a.mp3" THEN 120 ELSE 90]
    /\ \E absent \in {{}, {<<"b.mp3", "drums">>}} :
         LET present == (Songs \X Range(Roles)) \ absent
         IN /\ fs = [p \in {StemFile(x[1], x[2]) : x \in present} |-> [by |-> "j1", enh |-> FALSE]]
            /\ dirs = {p.dir : p \in {StemFile(x[1], x[2]) : x \in present}}
    /\ fpc = [r \in Requests |-> "start"]
    /\ role_index = [r \in Requests |-> 1]
    /\ stems_to_fuse = [r \in Requests |-> <<>>]
    /\ temp_fusion = <<>>
    /\ fused_tracks = {}
    /\ response = [r \in Requests |-> "none"]
    /\ stretch_log = [r \in Requests |-> <<>>]
    /\ cfg = [j \in Jobs |-> IdleConfig]
    /\ pc = [j \in Jobs |-> "idle"]
    /\ proc = [j \in Jobs |-> NoProc]
    /\ ACTIVE_PROCESSES = <<>>
    /\ events = [j \in Jobs |-> <<>>]
    /\ ops = [j \in Jobs |-> <<>>]
    /\ cancelled = [j \in Jobs |-> {}]
    /\ cancel_reply = [j \in Jobs |-> "none"]
    /\ listing = [j \in Jobs |-> NoListing]

SpecTwoFusions == TwoFusionsInit /\ [][NextFusion]_vars

\* ------------------------------------------------------- /results-for-file
\* app.py results_for_file for job j's upload: the stem count and the model
\* are taken from the request body
results_for_file(j) ==
    /\ pc[j] # "idle"
    /\ \E components \in ComponentChoices, model \in Models \cup {best_model} :
         listing' = [listing EXCEPT ![j] =
                       [components |-> components, model |-> model,
                        results |-> get_separation_results(fs, cfg[j].input, components, model)]]
    /\ UNCHANGED <<fvars, cancel_reply, cfg, pc, proc, ACTIVE_PROCESSES, fs, dirs,
                   events, ops, cancelled>>

\* a step of job j's run with engines that write no diagnostic lines, or of
\* a /cancel request of its session
QuietStep(j) ==
    \/ StartInputMissing(j)
    \/ StartUnknownComponents(j)
    \/ PipelineStep(j)
    \/ NoTrackDir8(j)
    \/ NextSubPass8(j)
    \/ Finish8(j)
    \/ EngineStep(j)
    \/ cancel_process(j)

NextResults ==
    \E j \in Jobs :
        \/ QuietStep(j)
        \/ results_for_file(j)

\* one separation request, and listing requests at any moment of its run
SpecResults == LiveInit /\ [][NextResults]_vars

\* ================================================================ properties
\* the names of the files in directory d
FilesIn(f, d) == {p.name : p \in {q \in DOMAIN f : q.dir = d}}

\* the _run_demucs call job j is in ends in this step
CallEndsNow(j) ==
    /\ pc[j] = "run"
    /\ pc'[j] # "run" \/ Len(ops'[j]) > Len(ops[j])

NewEvents(j) == SubSeq(events'[j], Len(events[j]) + 1, Len(events'[j]))

HasError(evs) == \E i \in 1..Len(evs) : evs[i].t = "error"

Spawns(j) == {i \in 1..Len(ops[j]) : ops[j][i].op = "spawn"}

\* C1: whenever a _run_demucs call made with a job key ends (stream exhausted
\* after exit 0, engine failure raised, exit by a cancellation kill, or the
\* consumer closing the generator), the registry holds no entry for that key
\* once the call has ended.
C1_ReleasedOnEveryExit ==
    [][\A j \in Jobs : CallEndsNow(j) => proc[j].key \notin DOMAIN ACTIVE_PROCESSES']_vars

\* C1 witness: a call ended by the consumer closing the generator while the
\* engine was running, and the key is gone
C1_Witness ==
    /\ pc["j1"] = "abandoned"
    /\ proc["j1"].rc = KILLED
    /\ proc["j1"].key = job_id(cfg["j1"])
    /\ proc["j1"].key \notin DOMAIN ACTIVE_PROCESSES

\* C2: when the Pass1 process was killed by cancel, the end of the Pass1 call
\* emits no error event and leaves no registry entry for the job key; a run
\* whose only engine process was the killed one ends without any error event
\* and with the job key absent from the registry.
C2_CancelIsNotFailure ==
    /\ [][\A j \in Jobs :
            (CallEndsNow(j) /\ proc[j].pass = "pass1" /\ "pass1" \in cancelled[j])
                => /\ ~HasError(NewEvents(j))
                   /\ job_id(cfg[j]) \notin DOMAIN ACTIVE_PROCESSES']_vars
    /\ [](\A j \in Jobs :
            (pc[j] = "done" /\ "pass1" \in cancelled[j])
                => /\ job_id(cfg[j]) \notin DOMAIN ACTIVE_PROCESSES
                   /\ Cardinality(Spawns(j)) = 1 => ~HasError(events[j]))

\* C2 witness: a finished run whose Pass1 was killed by cancel
C2_Witness ==
    /\ pc["j1"] = "done"
    /\ "pass1" \in cancelled["j1"]
    /\ proc["j1"].rc = KILLED
    /\ ~HasError(events["j1"])
    /\ job_id(cfg["j1"]) \notin DOMAIN ACTIVE_PROCESSES

Terminals(evs) == {i \in 1..Len(evs) : evs[i].t \in {"error", "complete"}}

\* C3: the events delivered to the caller hold at most one terminal event
\* (complete or error), a finished run holds exactly one, and it is the last
\* event.
C3_ExactlyOneTerminal ==
    \A j \in Jobs :
        /\ Cardinality(Terminals(events[j])) <= 1
        /\ pc[j] = "done" => Terminals(events[j]) = {Len(events[j])}

\* C4: from the moment an engine pass has exited with a code that is neither 0
\* nor the kill code, the job spawns no engine process (no later pass, no
\* retry), runs no assembly and no enhancement.
C4_FailureAborts ==
    [][\A j \in Jobs :
          (proc[j].st = "exited" /\ proc[j].rc # 0 /\ proc[j].rc # KILLED)
              => ops'[j] = ops[j]]_vars

\* C4 witness: an 8-stem run ended after its drums sub-invocation failed
C4_Witness ==
    /\ pc["j1"] = "done"
    /\ proc["j1"].pass = "drums"
    /\ proc["j1"].rc = 1
    /\ HasError(events["j1"])
    /\ ops["j1"][Len(ops["j1"])] = Op("spawn", "drums", best_model, {})

LineEvents(evs) == {i \in 1..Len(evs) : evs[i].t = "line"}

\* C5: in the delivered events, a line of an earlier pass never follows a line
\* of a later pass (Pass1, then vocals, drums, other), and two lines of one
\* pass appear in the order the engine wrote them.
C5_PassOrder ==
    \A j \in Jobs : \A i, k \in LineEvents(events[j]) :
        i < k =>
            LET a == events[j][i]
                b == events[j][k]
            IN /\ PassIndex(a.pass) <= PassIndex(b.pass)
               /\ a.pass = b.pass => a.n < b.n

\* C5 witness: lines of two different Pass2 sub-invocations were delivered
C5_Witness ==
    \E i, k \in LineEvents(events["j1"]) :
        /\ events["j1"][i].pass = "vocals"
        /\ events["j1"][k].pass = "drums"

\* every pass of the job's plan has run to exit 0 and all its stems are on disk
PlanPasses(components) ==
    CASE components = 4 -> {"pass1"}
      [] components = 6 -> {"pass1", "other"}
      [] components = 8 -> {"pass1", "vocals", "drums", "other"}
      [] OTHER -> {}

AllPassesProduced(j) ==
    /\ ~HasError(events[j])
    /\ cancelled[j] = {}
    /\ \A p \in PlanPasses(cfg[j].components) :
          /\ \E i \in Spawns(j) : ops[j][i].pass = p
          /\ \A s \in EngineStems(p) : Exists(fs, File(EngineOutDir(cfg[j], p), Wav(s)))

\* C6: a finished run with enhance off, on an existing input, for 4, 6 or 8
\* stems, in which every pass of the plan exited 0 with all its stems written,
\* leaves in the canonical directory exactly the files get_separation_results
\* checks for that stem count.
C6_ExactlyPlanFiles ==
    \A j \in Jobs :
        (/\ pc[j] = "done"
         /\ cfg[j].exists
         /\ cfg[j].components \in {4, 6, 8}
         /\ ~cfg[j].enhance
         /\ AllPassesProduced(j))
            => FilesIn(fs, relative_dir(cfg[j].input, cfg[j].components, used_model(cfg[j])))
                 = Range(files_to_check(cfg[j].components))

\* C6 witness: such a run of the 8-stem plan
C6_Witness ==
    /\ pc["j1"] = "done"
    /\ cfg["j1"].components = 8
    /\ ~cfg["j1"].enhance
    /\ AllPassesProduced("j1")

\* C7: after an Enhance step, every stem for which enhance_audio reported
\* no-op is still in the canonical directory with its content unchanged.
C7_SilentStemKept ==
    \A j \in Jobs : \A i \in 1..Len(ops[j]) :
        ops[j][i].op = "enhance" =>
            \A s \in ops[j][i].failed :
                LET p == File(relative_dir(cfg[j].input, cfg[j].components, used_model(cfg[j])), Wav(s))
                IN Exists(fs, p) /\ ~fs[p].enh

\* the scratch files request r created that are still in the scratch directory
ScratchOf(r) == {p \in DOMAIN temp_fusion : temp_fusion[p].by = r}

\* C8: when a fusion request has ended, on any path, none of the scratch stem
\* files it created is left in the temporary fusion directory.
C8_ScratchDeleted ==
    \A r \in Requests : fpc[r] = "done" => ScratchOf(r) = {}

\* C9: a fusion request whose master song exists but has an undetectable
\* tempo never calls the time-stretcher, creates no scratch file, collects no
\* stem and writes no mixed file; it ends with the master-tempo error.
C9_NoWorkWithoutTempo ==
    \A r \in Requests :
        (/\ fpc[r] # "idle"
         /\ request[r].master_tempo_song_id \in uploads
         /\ get_bpm(request[r].master_tempo_song_id) = 0)
            => /\ stretch_log[r] = <<>>
               /\ stems_to_fuse[r] = <<>>
               /\ ScratchOf(r) = {}
               /\ r \notin fused_tracks
               /\ fpc[r] \in {"start", "done"}
               /\ fpc[r] = "done" => response[r] = "400 no master bpm"

\* C9 witness: a request ended by the master-tempo error although a non-muted
\* role names a stem of another song that is on disk
C9_Witness ==
    /\ fpc["r1"] = "done"
    /\ response["r1"] = "400 no master bpm"
    /\ \E x \in Range(Roles) :
         /\ request["r1"].fusion_map[x].song_id = "b.mp3"
         /\ ~request["r1"].fusion_map[x].is_muted
         /\ Exists(fs, StemFile("b.mp3", x))

\* C10: a role whose time-stretch failed is not among the stems handed to the
\* mixer, and the failure does not end the request with an exception.
C10_FailedStretchDropped ==
    \A r \in Requests : \A i \in 1..Len(stretch_log[r]) :
        stretch_log[r][i].outcome # "ok" =>
            /\ response[r] # "500 exception"
            /\ \A k \in 1..Len(stems_to_fuse[r]) :
                  stems_to_fuse[r][k].path.stem_name # stretch_log[r][i].role

\* ------------------------------------------------------------ fusion roles
\* role x of request r is assigned a song and not muted
RoleSelected(r, x) ==
    /\ request[r].fusion_map[x].song_id # ""
    /\ ~request[r].fusion_map[x].is_muted

\* the stem artifact role x of request r names is on disk
StemOnDisk(r, x) ==
    /\ request[r].fusion_map[x].song_id # ""
    /\ Exists(fs, StemFile(request[r].fusion_map[x].song_id, x))

\* the roles whose stem was appended to stems_to_fuse
Collected(r) == {stems_to_fuse[r][k].path.stem_name : k \in 1..Len(stems_to_fuse[r])}

\* the roles whose time_stretch_audio call did not write its output
FailedStretch(r) ==
    {stretch_log[r][i].role : i \in {k \in 1..Len(stretch_log[r]) : stretch_log[r][k].outcome # "ok"}}

\* the roles for which a scratch stem was written (copied or stretched)
Produced(r) == Collected(r) \ FailedStretch(r)

\* the request passed step 1 of fuse_tracks (master song found, tempo detected)
PassedMaster(r) ==
    /\ request[r].master_tempo_song_id \in uploads
    /\ get_bpm(request[r].master_tempo_song_id) # 0

Stretched(r) == {stretch_log[r][i].role : i \in 1..Len(stretch_log[r])}

\* the roles for which request r left a file in the scratch directory
ScratchRoles(r) == {temp_fusion[p].role : p \in ScratchOf(r)}

\* C12: a role that is muted or has no song assigned is, whatever its volume,
\* never stretched, never given a scratch file and never among the stems
\* handed to the mixer; the loop iteration for such a role changes nothing
\* but the loop position.
C12_MutedExcluded ==
    /\ [](\A r \in Requests : \A x \in Range(Roles) :
            ~RoleSelected(r, x) =>
                /\ x \notin Stretched(r)
                /\ x \notin ScratchRoles(r)
                /\ x \notin Collected(r))
    /\ [][\A r \in Requests :
            (InLoop(r) /\ ~Selected(r) /\ role_index'[r] # role_index[r])
                => UNCHANGED <<stems_to_fuse, temp_fusion, stretch_log,
                               fused_tracks, response>>]_vars

\* C12 witness: a muted role at volume 2 whose stem is on disk was left out
\* of a request that mixed the other role
C12_Witness ==
    /\ fpc["r1"] = "done"
    /\ response["r1"] = "200 success"
    /\ request["r1"].fusion_map["vocals"].is_muted
    /\ request["r1"].fusion_map["vocals"].volume = 2
    /\ StemOnDisk("r1", "vocals")
    /\ Collected("r1") = {"drums"}

\* the step appends an assembly to job j's log
AssemblesNow(j) ==
    \E i \in (Len(ops[j]) + 1)..Len(ops'[j]) : ops'[j][i].op = "assemble"

\* C13: in an 8-stem job every engine invocation (Pass1 and each sub-pass)
\* runs with htdemucs_ft whatever model was requested, the engine writes
\* under htdemucs_ft directories only, and every file the assembly puts in
\* the canonical directory is the copy of a file_map source that lies in an
\* htdemucs_ft directory.
C13_PinnedModel ==
    /\ [](\A j \in Jobs :
            cfg[j].components = 8 =>
                /\ \A i \in Spawns(j) : ops[j][i].model = best_model
                /\ proc[j].st # "none" => EngineOutDir(cfg[j], proc[j].pass).a = best_model
                /\ \A p \in DOMAIN fs :
                      p.dir.kind \in {"track", "advanced", "advanced_stem"}
                          => p.dir.a = best_model)
    /\ [][\A j \in Jobs :
            (cfg[j].components = 8 /\ AssemblesNow(j)) =>
                LET final_dir == FinalDir8(base_name(cfg[j].input))
                    table == file_map(TrackDir(best_model, base_name(cfg[j].input)), final_dir)
                IN \A p \in {q \in DOMAIN fs' : q.dir = final_dir} :
                      \E i \in 1..Len(table) :
                          /\ table[i][2] = p
                          /\ table[i][1].dir.a = best_model
                          /\ table[i][1].dir.kind \in {"track", "advanced_stem"}
                          /\ Exists(fs, table[i][1])
                          /\ fs'[p] \in {fs[table[i][1]], Enhanced(fs[table[i][1]])}]_vars

\* C13 witness: an 8-stem job requested with model mdx ran Pass1 and the
\* three sub-passes and assembled its canonical directory
C13_Witness ==
    /\ pc["j1"] = "done"
    /\ cfg["j1"].components = 8
    /\ cfg["j1"].model = "mdx"
    /\ Cardinality(Spawns("j1")) = 4
    /\ \A i \in Spawns("j1") : ops["j1"][i].model = best_model
    /\ Exists(fs, File(FinalDir8("a"), "lead_vocals.wav"))
    /\ Exists(fs, File(FinalDir8("a"), "bass.wav"))

\* the Pass1 output file of stem for job j
Pass1File(j, stem) ==
    File(TrackDir(used_model(cfg[j]), base_name(cfg[j].input)), Wav(stem))

\* job j spawned an engine process for the given pass
Spawned(j, pass) == \E i \in Spawns(j) : ops[j][i].pass = pass

\* C14: in a 6-stem job, the second pass is spawned and the derived key is
\* registered only when other.wav is among the Pass1 output; a run that
\* ended after a Pass1 that did not fail, with other.wav absent, made exactly
\* one engine invocation, leaves no registry entry, delivered no error event
\* and ended with the completion event.
C14_NoOtherNoSecondPass ==
    \A j \in Jobs :
        cfg[j].components = 6 =>
            /\ Spawned(j, "other") => Exists(fs, Pass1File(j, "other"))
            /\ sub_job_id(cfg[j], "other") \in DOMAIN ACTIVE_PROCESSES
                  => Exists(fs, Pass1File(j, "other"))
            /\ (/\ pc[j] = "done"
                /\ Spawned(j, "pass1")
                /\ ~(proc[j].pass = "pass1" /\ IsEngineFailure(proc[j].rc))
                /\ ~Exists(fs, Pass1File(j, "other")))
                  => /\ Cardinality(Spawns(j)) = 1
                     /\ DOMAIN ACTIVE_PROCESSES = {}
                     /\ ~HasError(events[j])
                     /\ events[j][Len(events[j])] = CompleteEvent

\* C14 witness: a 6-stem run whose Pass1 exited 0 leaving vocals.wav but no
\* other.wav has ended
C14_Witness ==
    /\ pc["j1"] = "done"
    /\ cfg["j1"].components = 6
    /\ proc["j1"].pass = "pass1"
    /\ proc["j1"].rc = 0
    /\ Exists(fs, Pass1File("j1", "vocals"))
    /\ ~Exists(fs, Pass1File("j1", "other"))
    /\ ~HasError(events["j1"])

\* job j ran an assembly
Assembled(j) == \E i \in 1..Len(ops[j]) : ops[j][i].op = "assemble"

\* C15: an 8-stem run that ended, whose Pass1 left its output directory and
\* in which no engine process failed, ran the sub-invocation of exactly
\* those of vocals, drums, other whose Pass1 stem file exists (a missing one
\* is skipped, the others still run), ran the assembly, and delivered no
\* error event before its completion event.
C15_MissingSubStemSkipped ==
    \A j \in Jobs :
        (/\ cfg[j].components = 8
         /\ pc[j] = "done"
         /\ Spawned(j, "pass1")
         /\ ~IsEngineFailure(proc[j].rc)
         /\ TrackDir(best_model, base_name(cfg[j].input)) \in dirs)
            => /\ \A s \in Range(stems_to_separate) :
                     Spawned(j, s) <=> Exists(fs, Pass1File(j, s))
               /\ Assembled(j)
               /\ FinalDir8(base_name(cfg[j].input)) \in dirs
               /\ ~HasError(events[j])
               /\ events[j][Len(events[j])] = CompleteEvent

\* C15 witness: Pass1 left no drums.wav; the vocals and other sub-invocations
\* ran, the drums one did not, and the assembly copied their output
C15_Witness ==
    /\ pc["j1"] = "done"
    /\ cfg["j1"].components = 8
    /\ ~Exists(fs, Pass1File("j1", "drums"))
    /\ Spawned("j1", "vocals")
    /\ Spawned("j1", "other")
    /\ ~Spawned("j1", "drums")
    /\ Assembled("j1")
    /\ Exists(fs, File(FinalDir8("a"), "lead_vocals.wav"))
    /\ Exists(fs, File(FinalDir8("a"), "piano.wav"))
    /\ ~Exists(fs, File(FinalDir8("a"), "kick_snare.wav"))
    /\ ~HasError(events["j1"])

\* the <<source, destination>> pairs the assembly of job j goes through
AssemblyTable(j) ==
    LET base == base_name(cfg[j].input)
        track_dir == TrackDir(used_model(cfg[j]), base)
    IN IF cfg[j].components = 8 THEN file_map(track_dir, FinalDir8(base))
       ELSE [i \in 1..4 |-> <<File(track_dir, Wav(BaseStems[i])),
                              File(FinalDir6(base), Wav(BaseStems[i]))>>]
            \o << <<File(AdvancedDir6(cfg[j].model), "other.wav"),
                    File(FinalDir6(base), "piano.wav")>>,
                  <<File(AdvancedDir6(cfg[j].model), "no_other.wav"),
                    File(FinalDir6(base), "guitar.wav")>> >>

\* C16: in the step that assembles the 6-stem or 8-stem canonical directory,
\* a destination appears only if its table source exists at that moment;
\* every entry whose source exists is copied, also after an entry whose
\* source is missing (with enhancement off the destination holds the
\* source's content); the step delivers no error event.
C16_CopyOnlyExisting ==
    [][\A j \in Jobs :
          (cfg[j].components \in {6, 8} /\ AssemblesNow(j)) =>
              LET table == AssemblyTable(j)
              IN /\ \A i \in 1..Len(table) :
                       /\ (Exists(fs', table[i][2]) /\ ~Exists(fs, table[i][2]))
                             => Exists(fs, table[i][1])
                       /\ (Exists(fs, table[i][1]) /\ ~cfg[j].enhance)
                             => /\ Exists(fs', table[i][2])
                                /\ fs'[table[i][2]] = fs[table[i][1]]
                       /\ (Exists(fs, table[i][1]) /\ cfg[j].enhance /\ Exists(fs', table[i][2]))
                             => fs'[table[i][2]] = Enhanced(fs[table[i][1]])
                 /\ \A p \in DOMAIN fs' \ DOMAIN fs :
                       \E i \in 1..Len(table) : table[i][2] = p
                 /\ ~HasError(NewEvents(j))]_vars

\* C16 witness: the drums sub-pass left no no_drums.wav; the assembly wrote
\* kick_snare.wav, left cymbals.wav unwritten, and still copied the later
\* entries piano.wav and guitar.wav; no error event was delivered
C16_Witness ==
    /\ pc["j1"] = "done"
    /\ cfg["j1"].components = 8
    /\ ~cfg["j1"].enhance
    /\ Assembled("j1")
    /\ ~Exists(fs, File(AdvancedDir8("drums"), "no_drums.wav"))
    /\ Exists(fs, File(FinalDir8("a"), "kick_snare.wav"))
    /\ ~Exists(fs, File(FinalDir8("a"), "cymbals.wav"))
    /\ Exists(fs, File(FinalDir8("a"), "piano.wav"))
    /\ Exists(fs, File(FinalDir8("a"), "guitar.wav"))
    /\ ~HasError(events["j1"])

\* C17: a job on an existing input whose stem count is outside {4, 6, 8}
\* spawns no engine process and registers no key, and when it has ended its
\* events hold an error event and no completion event.
C17_UnknownCountRejected ==
    \A j \in Jobs :
        (pc[j] # "idle" /\ cfg[j].exists /\ cfg[j].components \notin {4, 6, 8}) =>
            /\ Spawns(j) = {}
            /\ proc[j] = NoProc
            /\ DOMAIN ACTIVE_PROCESSES = {}
            /\ pc[j] = "done" =>
                  /\ HasError(events[j])
                  /\ \A i \in 1..Len(events[j]) : events[j][i] # CompleteEvent

\* the registry entry of key k is the same before and after the step
EntryUnchanged(k) ==
    /\ k \in DOMAIN ACTIVE_PROCESSES <=> k \in DOMAIN ACTIVE_PROCESSES'
    /\ k \in DOMAIN ACTIVE_PROCESSES => ACTIVE_PROCESSES'[k] = ACTIVE_PROCESSES[k]

\* C18: with two jobs of different job keys, a step of one job's pipeline
\* (register, deregister) or a cancel request for its key (lookup, kill)
\* leaves every registry entry whose key is not derived from that job's key
\* as it was and leaves the other job's process as it was; every registry
\* entry holds the process of the job its key belongs to.
C18_NoCrossJobInterference ==
    /\ [][\A j \in Jobs :
            (PipelineStep(j) \/ cancel_process(j)) =>
                /\ \A k \in DOMAIN ACTIVE_PROCESSES \cup DOMAIN ACTIVE_PROCESSES' :
                      k.base # cfg[j].input => EntryUnchanged(k)
                /\ \A i \in Jobs \ {j} : proc'[i] = proc[i]]_vars
    /\ [](\A k \in DOMAIN ACTIVE_PROCESSES :
            cfg[ACTIVE_PROCESSES[k].job].input = k.base)

\* C18 witness: job j1 was cancelled and has ended, its key is gone, and job
\* j2's process is still registered and running
C18_Witness ==
    /\ pc["j1"] = "done"
    /\ "pass1" \in cancelled["j1"]
    /\ job_id(cfg["j1"]) \notin DOMAIN ACTIVE_PROCESSES
    /\ job_id(cfg["j2"]) \in DOMAIN ACTIVE_PROCESSES
    /\ proc["j2"].st = "running"
    /\ cancelled["j2"] = {}

\* job j's current engine process is a running Pass2 sub-invocation
SubPassRunning(j) ==
    /\ proc[j].st = "running"
    /\ proc[j].pass \in Range(stems_to_separate)

\* C19: while a Pass2 sub-invocation of a job runs, the registry holds its
\* process under the derived key (job key, "-", sub-pass) and holds nothing
\* under the base job key, so the lookup of cancel_process finds no live
\* process; no sub-invocation is ever killed by a cancel request, and a
\* sub-invocation ends with the kill code only when the consumer closed the
\* generator.
C19_CancelMissesSubPass ==
    \A j \in Jobs :
        /\ SubPassRunning(j) =>
              /\ proc[j].key = sub_job_id(cfg[j], proc[j].pass)
              /\ proc[j].key # job_id(cfg[j])
              /\ proc[j].key \in DOMAIN ACTIVE_PROCESSES
              /\ ACTIVE_PROCESSES[proc[j].key] = Handle(j, proc[j].pass)
              /\ job_id(cfg[j]) \notin DOMAIN ACTIVE_PROCESSES
              /\ ~LiveProcess(ACTIVE_PROCESSES, job_id(cfg[j]))
        /\ cancelled[j] \subseteq {"pass1"}
        /\ (proc[j].pass \in Range(stems_to_separate) /\ proc[j].rc = KILLED)
              => pc[j] = "abandoned"

\* C19 witness: the drums sub-invocation of an 8-stem job is running after
\* the vocals one ended, registered under the derived key only
C19_Witness ==
    /\ cfg["j1"].components = 8
    /\ pc["j1"] = "run"
    /\ proc["j1"].pass = "drums"
    /\ proc["j1"].st = "running"
    /\ DOMAIN ACTIVE_PROCESSES = {sub_job_id(cfg["j1"], "drums")}
    /\ ~LiveProcess(ACTIVE_PROCESSES, job_id(cfg["j1"]))

\* job j's run has been requested and has not ended: its generator has not
\* started yet, or it waits on its engine process (for the next line of the
\* stderr pipe, or for the exit)
Pending(j) == pc[j] \in {"init", "run"}

\* job j's run has ended and delivered a terminal event
TerminalDelivered(j) == pc[j] = "done" /\ Terminals(events[j]) # {}

\* C20: under the scheduling of Fairness, a run that has been requested or is
\* waiting on an engine process eventually delivers a terminal event, unless
\* the consumer closed the generator.
C20_NoSilentHang ==
    \A j \in Jobs : Pending(j) ~> (TerminalDelivered(j) \/ pc[j] = "abandoned")

\* C20 witness: a run that delivered engine lines, whose engine was killed
\* by cancel while the pipeline waited on it, has delivered its terminal event
C20_Witness ==
    /\ TerminalDelivered("j1")
    /\ LineEvents(events["j1"]) # {}
    /\ proc["j1"].rc = KILLED
    /\ "pass1" \in cancelled["j1"]

\* the registry holds, under job j's key, a process that has not exited
HoldsLive(j) ==
    /\ job_id(cfg[j]) \in DOMAIN ACTIVE_PROCESSES
    /\ proc[ACTIVE_PROCESSES[job_id(cfg[j])].job].st = "running"

\* the processes that are ended in this step otherwise than by exiting by
\* themselves or by the release of an abandoned call
KilledNow ==
    {i \in Jobs : /\ proc[i].st = "running"
                  /\ proc'[i].st = "exited"
                  /\ proc'[i].rc = KILLED
                  /\ pc'[i] # "abandoned"}

\* C21: a /cancel request for a job key kills a process exactly when the
\* registry holds an entry for that key whose process has not exited, it
\* kills that process and no other, and replies success in exactly that case;
\* otherwise it kills nothing and replies not-found; in both cases it leaves
\* the registry as it was; no process is killed without a successful cancel.
C21_CancelExactlyLive ==
    /\ [][\A j \in Jobs :
            cancel_reply'[j] # cancel_reply[j] =>
                /\ cancel_reply'[j] = "200 cancelled" <=> HoldsLive(j)
                /\ cancel_reply'[j] = "404 not found" <=> ~HoldsLive(j)
                /\ HoldsLive(j) => KilledNow = {ACTIVE_PROCESSES[job_id(cfg[j])].job}
                /\ ~HoldsLive(j) => KilledNow = {} /\ proc' = proc
                /\ ACTIVE_PROCESSES' = ACTIVE_PROCESSES]_vars
    /\ [][KilledNow # {} =>
            \E j \in Jobs : HoldsLive(j) /\ cancel_reply'[j] = "200 cancelled"]_vars
    /\ [](\A j \in Jobs : cancel_reply[j] = "none" => cancelled[j] = {})

\* C21 witness: a cancel request that found the entry of an exited process
\* (before the call's release) was answered not-found and killed nothing
C21_Witness ==
    /\ cancel_reply["j1"] = "404 not found"
    /\ job_id(cfg["j1"]) \in DOMAIN ACTIVE_PROCESSES
    /\ proc["j1"].st = "exited"
    /\ proc["j1"].rc = 0
    /\ cancelled["j1"] = {}

\* the lines of the given pass delivered to job j's consumer so far
LinesOf(j, pass) == {i \in LineEvents(events[j]) : events[j][i].pass = pass}

\* a lookup of the key of job j's current call returns that call's process
LookupReturnsOwn(j) ==
    /\ proc[j].key \in DOMAIN ACTIVE_PROCESSES
    /\ ACTIVE_PROCESSES[proc[j].key] = Handle(j, proc[j].pass)

\* C22: in every _run_demucs call, from the spawn on, hence at the first
\* yielded line and at every later point until the call ends, a lookup of
\* the call's job key returns the call's own process; no line of a call is
\* delivered in a step that starts or ends without that registration.
C22_RegisteredBeforeFirstLine ==
    /\ [](\A j \in Jobs : pc[j] = "run" => LookupReturnsOwn(j))
    /\ [][\A j \in Jobs :
            (Len(events'[j]) > Len(events[j]) /\ events'[j][Len(events'[j])].t = "line")
                => /\ LookupReturnsOwn(j)
                   /\ ACTIVE_PROCESSES'[proc'[j].key] = Handle(j, events'[j][Len(events'[j])].pass)]_vars

\* C22 witness: the consumer holds the first line of the second pass of a
\* 6-stem job, and the derived key maps to that pass's process
C22_Witness ==
    /\ AtLineYield("j1")
    /\ cfg["j1"].components = 6
    /\ proc["j1"].pass = "other"
    /\ Cardinality(LinesOf("j1", "other")) = 1
    /\ ACTIVE_PROCESSES[sub_job_id(cfg["j1"], "other")] = Handle("j1", "other")

\* job j's run ended as Done: not by an engine failure, not after a cancel
ReachedDone(j) ==
    /\ pc[j] = "done"
    /\ cfg[j].exists
    /\ Spawned(j, "pass1")
    /\ ~HasError(events[j])
    /\ cancelled[j] = {}

\* C23: when a 6-stem job with enhancement off has reached Done, every base
\* stem (vocals, drums, bass, other) that Pass1 produced is in the canonical
\* 6-stem directory, also in the run in which other.wav is absent and the
\* second pass is skipped.
C23_BaseStemsAssembled ==
    \A j \in Jobs :
        (cfg[j].components = 6 /\ ~cfg[j].enhance /\ ReachedDone(j)) =>
            \A i \in 1..Len(BaseStems) :
                Exists(fs, Pass1File(j, BaseStems[i]))
                    => Exists(fs, File(FinalDir6(base_name(cfg[j].input)), Wav(BaseStems[i])))

\* the names of the sequence that are on disk in directory d, in its order
OnDisk(f, d, names) == SelectSeq(names, LAMBDA n : Exists(f, File(d, n)))

\* C24: the reply of a listing request holds exactly one artifact for each
\* file name of the requested stem count's expected list that exists in the
\* job's canonical directory at the time of the call, in the order of the
\* list, with that file's path; it never holds an artifact whose file is
\* absent; for a stem count outside {4, 6, 8} it is empty.
C24_ListsExactlyExisting ==
    [][\A j \in Jobs :
          listing'[j] # listing[j] =>
              LET components == listing'[j].components
                  results == listing'[j].results
                  d == relative_dir(cfg[j].input, components, listing'[j].model)
                  present == OnDisk(fs, d, files_to_check(components))
              IN /\ Len(results) = Len(present)
                 /\ \A i \in 1..Len(results) :
                       /\ results[i].path = File(d, present[i])
                       /\ results[i].name = DisplayName(present[i])
                       /\ Exists(fs, results[i].path)
                 /\ components \notin {4, 6, 8} => results = <<>>
                 /\ components = 4 => d = TrackDir(listing'[j].model, base_name(cfg[j].input))
                 /\ components = 6 => d = FinalDir6(base_name(cfg[j].input))
                 /\ components = 8 => d = FinalDir8(base_name(cfg[j].input))]_vars

\* C24 witness: the listing of an 8-stem job whose Pass1 left no drums.wav,
\* so that the canonical directory lacks drums.wav, kick_snare.wav and
\* cymbals.wav: seven artifacts, other.wav listed third, lead_vocals.wav
\* fourth and piano.wav directly after harmony.wav
C24_Witness ==
    /\ pc["j1"] = "done"
    /\ cfg["j1"].components = 8
    /\ listing["j1"].components = 8
    /\ ~Exists(fs, File(FinalDir8("a"), "drums.wav"))
    /\ ~Exists(fs, File(FinalDir8("a"), "cymbals.wav"))
    /\ Len(listing["j1"].results) = 7
    /\ listing["j1"].results[3].name = "Other"
    /\ listing["j1"].results[4].name = "Lead Vocals"
    /\ listing["j1"].results[6].name = "Piano"
    /\ listing["j1"].results[7].path = File(FinalDir8("a"), "guitar.wav")

DerivedStems == {"piano", "guitar", "lead_vocals", "harmony", "kick_snare", "cymbals"}

\* C25: with jobs on different inputs sharing one output root, every derived
\* stem in a 6-stem or 8-stem job's canonical directory was written by an
\* engine process of that same job.
C25_DerivedFromOwnPass2 ==
    \A j \in Jobs :
        cfg[j].components \in {6, 8} =>
            \A s \in DerivedStems :
                LET p == File(relative_dir(cfg[j].input, cfg[j].components, used_model(cfg[j])),
                              Wav(s))
                IN Exists(fs, p) => fs[p].by = j

\* C26: once the Pass1 process of a 6-stem or 8-stem job has been killed by
\* cancel, the job spawns no further engine process and runs no assembly and
\* no enhancement, whatever Pass1 had written before the kill.
C26_CancelStopsPipeline ==
    [][\A j \in Jobs :
          (cfg[j].components \in {6, 8} /\ "pass1" \in cancelled[j])
              => ops'[j] = ops[j]]_vars

\* the step appends an Enhance step to job j's log
EnhancesNow(j) ==
    \E i \in (Len(ops[j]) + 1)..Len(ops'[j]) : ops'[j][i].op = "enhance"

\* the stem files in job j's canonical directory when its Enhance step
\* starts: those already there and those the assembly of the same step copies
BeforeEnhance(j) ==
    LET d == relative_dir(cfg[j].input, cfg[j].components, used_model(cfg[j]))
    IN {p \in DOMAIN fs : p.dir = d}
       \cup (IF cfg[j].components = 4 THEN {}
             ELSE {AssemblyTable(j)[i][2] :
                     i \in {k \in 1..Len(AssemblyTable(j)) : Exists(fs, AssemblyTable(j)[k][1])}})

\* C27: an Enhance step, also one in which enhance_audio fails on a stem
\* (returns False after an internal error), leaves every stem file that was
\* in the canonical directory before it in place under its name.
C27_EnhanceKeepsFiles ==
    [][\A j \in Jobs :
          EnhancesNow(j) => \A p \in BeforeEnhance(j) : Exists(fs', p)]_vars

C29_ScratchNotTouchedByOthers ==
    [][\A r \in Requests : \A p \in DOMAIN temp_fusion :
          (temp_fusion[p].by = r /\ fpc'[r] # "done")
              => /\ p \in DOMAIN temp_fusion'
                 /\ temp_fusion'[p] = temp_fusion[p]]_vars

\* C30: when the consumer closes the generator at a yielded line, the release
\* removes the call's registry entry and ends the engine process: one that
\* was still running ends with the kill code, one that had exited keeps its
\* exit code; after an abandoned call nothing is registered under its key,
\* and no engine process is ever running without being registered under
\* the key of its call.
C30_AbandonKills ==
    /\ [](\A j \in Jobs :
            /\ pc[j] = "abandoned" =>
                  /\ proc[j].st = "exited"
                  /\ proc[j].key \notin DOMAIN ACTIVE_PROCESSES
            /\ proc[j].st = "running" => LookupReturnsOwn(j))
    /\ [][\A j \in Jobs :
            (pc[j] # "abandoned" /\ pc'[j] = "abandoned") =>
                /\ proc[j].st = "running" => proc'[j].rc = KILLED
                /\ proc[j].st = "exited" => proc'[j].rc = proc[j].rc
                /\ "error" \notin {NewEvents(j)[i].t : i \in 1..Len(NewEvents(j))}]_vars

\* C30 witness: the consumer closed the generator at a line of the drums
\* sub-invocation of an 8-stem job while that engine was running; the
\* process was killed and its derived key is gone
C30_Witness ==
    /\ pc["j1"] = "abandoned"
    /\ cfg["j1"].components = 8
    /\ proc["j1"].pass = "drums"
    /\ proc["j1"].rc = KILLED
    /\ proc["j1"].st = "exited"
    /\ cancelled["j1"] = {}
    /\ sub_job_id(cfg["j1"], "drums") \notin DOMAIN ACTIVE_PROCESSES

====
